---- MODULE Spec2Model ----
(***************************************************************************)
(* State-machine model of the crypto transaction monitor (src/bot.py,      *)
(* src/config.py): the BTC feed connector, the matcher/classifier in       *)
(* on_btc_message / format_btc_message, the dedup set, the per-address     *)
(* statistics and the periodic tasks that clear and reset them.            *)
(*                                                                         *)
(* Amounts are satoshi.  Fiat values are kept exactly, in units of 10^-8   *)
(* USD: the code computes (satoshi / 10^8) * price and compares it with    *)
(* MINIMUM_USD_VALUE; here usd = satoshi * price and the threshold is      *)
(* MINIMUM_USD_VALUE * 10^8.  For the amounts and prices enumerated below  *)
(* the float computation of the code gives the same comparisons.           *)
(*                                                                         *)
(* Spec is the whole program: the connector thread, the handler of a       *)
(* frame and the periodic tasks, interleaved, each handler one step, fed   *)
(* from the compact sets FeedFrames and FeedResponses.                     *)
(* SpecClassify applies on_btc_message once to every frame of the larger   *)
(* set Frames, in every combination of threshold, price, dedup set and     *)
(* earlier statistics drawn by InitClassify.                               *)
(***************************************************************************)
EXTENDS Integers, Sequences, FiniteSets, TLC

\* ---------------------------------------------------------------- bounds
MaxVerdicts == 2        \* verdicts (stat mutations) applied in one run
MaxErrors == 1          \* cap of health_status.errors_count
MaxRefresh == 1         \* successful price refreshes in one run
MaxCycles == 2          \* daily resets in one run

\* ------------------------------------------------------ program constants
SATOSHI == 100000000
BACKOFF_SECONDS == 10

\* ------------------------------------------------------------ input sets
MONITORED_ADDRESSES == [btc |-> {"A", "B"}, eth |-> {"E"}]
Chains == {"btc", "eth"}
OtherAddr == "X"
OutAddrs == MONITORED_ADDRESSES["btc"] \cup {OtherAddr}
NoPrevOut == "noprev"
InAddrs == OutAddrs \cup {NoPrevOut}
Amounts == {0, 1000, 5000}
Prices == {0, 40000, 50000}
Thresholds == {0, 2 * SATOSHI}
StrHashes == {"t1", "t2"}
IntHash == "int"
NoHash == "nohash"
Hashes == StrHashes \cup {IntHash, NoHash}

VARIABLES
  config,                   \* config.py: [env, loaded, addresses]: the text of an address list, and the list parsed from it
  handler,                  \* position of on_btc_message on its alert path when it is taken line by line (SpecSteps), else idle
  resetter,                 \* position of the reset_daily_stats thread when it is taken line by line (SpecRace), else asleep
  MINIMUM_USD_VALUE,        \* config.py: threshold, fixed at load time
  crypto_prices,            \* [btc, eth]
  processed_transactions,   \* dedup set
  filtered_transactions,
  address_stats,            \* chain -> addr -> [alerts, total_value, filtered_count]
  health_status,            \* [websocket_btc, websocket_eth, total_alerts, total_filtered, errors_count, last_price_update]
  frame_in,                 \* the frame in flight to on_btc_message (SpecClassify), else NoFrame
  ws_pc,                    \* position of the run_btc_ws thread
  conn,                     \* phase of the WebSocketApp inside run_forever
  sends,                    \* history: hash -> alert notifications issued since the last dedup clear
  verdicts,                 \* history: hash -> verdicts applied since the last dedup clear
  filt_cycle,               \* history: hashes that got Filtered since the last dedup clear
  since_reset,              \* history: addr -> alert verdicts since the last daily reset
  nverdicts,                \* history: verdicts applied in this run (bounded by MaxVerdicts)
  last                      \* history: summary of the last operation

vars == <<config, handler, resetter, MINIMUM_USD_VALUE, crypto_prices, processed_transactions, filtered_transactions,
          address_stats, health_status, frame_in, ws_pc, conn, sends,
          verdicts, filt_cycle, since_reset, nverdicts, last>>

\* ------------------------------------------------------------ feed frames
\* One frame of the feed: json = FALSE is text json.loads rejects; op is data['op'];
\* hash, inputs and out are the fields of data['x'].  An input is the address of
\* its prev_out, or NoPrevOut when it has no prev_out (or one without addr).
OutRecs == [addr : MONITORED_ADDRESSES["btc"], value : Amounts]
             \cup {[addr |-> OtherAddr, value |-> 5000]}
OutSeqs == {<<>>} \cup {<<o>> : o \in OutRecs}
             \cup {<<o1, o2>> : o1 \in OutRecs, o2 \in OutRecs}
InSeqs == {<<>>} \cup {<<a>> : a \in InAddrs}
BadJsonFrame == [json |-> FALSE, op |-> "", hash |-> NoHash, inputs |-> <<>>, out |-> <<>>]
OtherOpFrame == [json |-> TRUE, op |-> "block", hash |-> NoHash, inputs |-> <<>>, out |-> <<>>]
UtxFrames == [json : {TRUE}, op : {"utx"}, hash : Hashes, inputs : InSeqs, out : OutSeqs]
Frames == UtxFrames \cup {BadJsonFrame, OtherOpFrame}
NoFrame == [json |-> FALSE, op |-> "none", hash |-> NoHash, inputs |-> <<>>, out |-> <<>>]

\* The frames of the feed in Spec.
FeedOuts == {<<[addr |-> "A", value |-> 1000]>>, <<[addr |-> "A", value |-> 5000]>>,
             <<[addr |-> "B", value |-> 5000]>>}
FeedFrames ==
  [json : {TRUE}, op : {"utx"}, hash : StrHashes, inputs : {<<OtherAddr>>}, out : FeedOuts]
  \cup [json : {TRUE}, op : {"utx"}, hash : {IntHash, NoHash}, inputs : {<<OtherAddr>>},
        out : {<<[addr |-> "A", value |-> 5000]>>}]
  \cup {BadJsonFrame, OtherOpFrame}

\* ------------------------------------------------------- matcher (pure part)
\* Mutant of IsInputAddr: the inputs are not looked at.
NeverInput(tx, output_addr) == FALSE

\* bot.py 396-399: the output's address is the prev_out address of some input.
IsInputAddr(tx, output_addr) ==
  \E i \in 1..Len(tx.inputs) : tx.inputs[i] # NoPrevOut /\ tx.inputs[i] = output_addr

\* bot.py 403-404 and 340-341: fiat value of an amount, in 10^-8 USD.
UsdValue(received_amount, price) == received_amount * price

\* Mutant of MeetsMinimum: a transfer worth exactly the threshold is filtered.
StrictlyAbove(usd_value, minimum) == usd_value > minimum

\* bot.py 407: the threshold test.
MeetsMinimum(usd_value, minimum) == usd_value >= minimum

\* Mutant of PositiveAmount: the zero-amount guard is missing.
AnyAmount(received_amount) == TRUE

\* bot.py 409: the zero-amount guard.
PositiveAmount(received_amount) == received_amount > 0

NoVerdict == [kind |-> "none", addr |-> "", amount |-> 0, usd |-> 0, idx |-> 0]

\* bot.py 389-431: the scan of tx['out'] from output i on; the verdict of the
\* first output at which the loop breaks, or NoVerdict when it runs to the end.
RECURSIVE ScanOutputs(_, _, _, _)
ScanOutputs(tx, i, price, minimum) ==
  IF i > Len(tx.out) THEN NoVerdict
  ELSE LET out == tx.out[i]
           usd_value == UsdValue(out.value, price)
       IN IF out.addr \in MONITORED_ADDRESSES["btc"] /\ ~IsInputAddr(tx, out.addr)
          THEN IF MeetsMinimum(usd_value, minimum)
               THEN IF PositiveAmount(out.value)
                    THEN [kind |-> "alert", addr |-> out.addr, amount |-> out.value,
                          usd |-> usd_value, idx |-> i]
                    ELSE ScanOutputs(tx, i + 1, price, minimum)
               ELSE [kind |-> "filtered", addr |-> out.addr, amount |-> out.value,
                     usd |-> usd_value, idx |-> i]
          ELSE ScanOutputs(tx, i + 1, price, minimum)

\* Mutant of Gate: a frame that does not parse is passed over in silence.
GateSilent(frame, processed) ==
  IF ~frame.json THEN "not_utx"
  ELSE IF frame.op # "utx" THEN "not_utx"
  ELSE IF frame.hash = NoHash THEN "no_hash"
  ELSE IF frame.hash \in processed THEN "seen"
  ELSE "scan"

\* Mutant of Gate: the dedup set is not consulted.
GateNoDedup(frame, processed) ==
  IF ~frame.json THEN "parse_error"
  ELSE IF frame.op # "utx" THEN "not_utx"
  ELSE IF frame.hash = NoHash THEN "no_hash"
  ELSE "scan"

\* bot.py 381-387: what on_btc_message does with a frame before the scan.
Gate(frame, processed) ==
  IF ~frame.json THEN "parse_error"
  ELSE IF frame.op # "utx" THEN "not_utx"
  ELSE IF frame.hash = NoHash THEN "no_hash"
  ELSE IF frame.hash \in processed THEN "seen"
  ELSE "scan"

\* ------------------------------------------------------------ the watch-list
\* An address string, by what validate_address_format looks at: how it starts,
\* its length, whether all characters after the first two are hex digits; tag
\* tells apart strings that agree in these.  EmptyText is ''.
EmptyText == [prefix |-> "", len |-> 0, hex |-> FALSE, tag |-> ""]
AddrA == [prefix |-> "1", len |-> 34, hex |-> FALSE, tag |-> "A"]
AddrB == [prefix |-> "1", len |-> 34, hex |-> FALSE, tag |-> "B"]
AddressTexts ==
  { AddrA, AddrB,
    [prefix |-> "bc1", len |-> 62, hex |-> FALSE, tag |-> "A"],
    [prefix |-> "3", len |-> 25, hex |-> FALSE, tag |-> "A"],
    [prefix |-> "tb1", len |-> 63, hex |-> FALSE, tag |-> "A"],
    [prefix |-> "0x", len |-> 42, hex |-> TRUE, tag |-> "E"],
    [prefix |-> "0x", len |-> 42, hex |-> FALSE, tag |-> "E"],
    [prefix |-> "0x", len |-> 40, hex |-> TRUE, tag |-> "E"],
    [prefix |-> "zz", len |-> 34, hex |-> FALSE, tag |-> "A"],
    EmptyText }

\* One comma-separated piece of the environment variable: a text, with or
\* without blanks around it.
EnvPieces == [text : AddressTexts, blanks : {FALSE}] \cup [text : {AddrA, EmptyText}, blanks : {TRUE}]
EnvLists ==
  {<<>>} \cup {<<e>> : e \in EnvPieces} \cup {<<e, f>> : e, f \in EnvPieces}
    \cup {<<e, f, g>> : e \in EnvPieces, f \in {[text |-> AddrA, blanks |-> FALSE], [text |-> EmptyText, blanks |-> FALSE], [text |-> [prefix |-> "zz", len |-> 34, hex |-> FALSE, tag |-> "A"], blanks |-> FALSE]}, g \in EnvPieces}

\* config.py 19: addr.strip().
strip(piece) == piece.text

\* config.py 45-59.
validate_address_format(address) ==
  IF address.len = 0 THEN FALSE
  ELSE IF address.prefix \in {"1", "3", "bc1", "tb1"}
       THEN address.len >= 26 /\ address.len <= 62
       ELSE IF address.prefix = "0x"
            THEN address.len = 42 /\ address.hex
            ELSE FALSE

\* config.py 19: the pieces, stripped, without the empty ones.
RECURSIVE addr_list(_)
addr_list(pieces) ==
  IF pieces = <<>> THEN <<>>
  ELSE LET rest == addr_list(Tail(pieces))
       IN IF strip(Head(pieces)) # EmptyText THEN <<strip(Head(pieces))>> \o rest ELSE rest

\* config.py 22-29: the loop over addr_list.
RECURSIVE validated_addresses(_)
validated_addresses(list) ==
  IF list = <<>> THEN <<>>
  ELSE LET rest == validated_addresses(Tail(list))
       IN IF validate_address_format(Head(list)) THEN <<Head(list)>> \o rest ELSE rest

\* config.py 12-29.
parse_addresses(pieces) == validated_addresses(addr_list(pieces))

\* The configuration the running bot was started with: the two watched BTC
\* addresses.
LoadedConfig ==
  [env |-> <<[text |-> AddrA, blanks |-> FALSE], [text |-> AddrB, blanks |-> FALSE]>>,
   loaded |-> TRUE,
   addresses |-> <<AddrA, AddrB>>]

\* No alert path of on_btc_message is under way.
Idle == [pc |-> "idle", hash |-> NoHash, addr |-> "", usd |-> 0]

\* The reset_daily_stats thread sleeps (bot.py 500); todo is the part of the
\* loop of lines 502-505 still to run, cycle the number of resets finished and
\* unsent whether the announcement of the last one failed.
Asleep == [pc |-> "sleep", todo |-> <<>>, cycle |-> 0, unsent |-> FALSE]

\* -------------------------------------------------------------- histories
\* Index of the first output whose address is watched and is no input address
\* (0 when there is none).
RECURSIVE FirstIncoming(_, _)
FirstIncoming(tx, i) ==
  IF i > Len(tx.out) THEN 0
  ELSE IF tx.out[i].addr \in MONITORED_ADDRESSES["btc"] /\ ~IsInputAddr(tx, tx.out[i].addr)
       THEN i
       ELSE FirstIncoming(tx, i + 1)

\* Some watched output address is also an input address (a round trip).
HasRoundTrip(tx) ==
  \E i \in 1..Len(tx.out) :
     tx.out[i].addr \in MONITORED_ADDRESSES["btc"] /\ IsInputAddr(tx, tx.out[i].addr)

\* The first incoming output carries amount 0.
FirstIsZero(tx) ==
  FirstIncoming(tx, 1) # 0 /\ tx.out[FirstIncoming(tx, 1)].value = 0

\* Summary of the last step: op is "msg" after on_btc_message, "reset" after
\* reset_daily_stats, "report" and "startup" after the two summaries (outcome is
\* then whether the send returned), "http" after a request was served (outcome
\* is the route), "prices" after get_crypto_prices (outcome is then "ok" or
\* "failed"), "connect" after the top of the connector loop (outcome is then
\* how the loop got there) and "none" after every other operation; outcome is the path the handler took; for a frame turned
\* away as seen, hash is its hash and would the verdict the scan would have given
\* at the price of that moment; for a refresh that went through, would is
\* "zeroed" when a BTC price above 0 was overwritten with 0.
NoLast == [op |-> "none", outcome |-> "", hash |-> NoHash, would |-> "none"]
MsgLast(frame, outcome, v) ==
  IF outcome = "seen"
  THEN [op |-> "msg", outcome |-> outcome, hash |-> frame.hash, would |-> v.kind]
  ELSE [NoLast EXCEPT !.op = "msg", !.outcome = outcome]

\* ------------------------------------------------------------------- Init
ZeroStats == [alerts |-> 0, total_value |-> 0, filtered_count |-> 0]

\* bot.py 25-41: the module's globals after import.
Init ==
  /\ config = LoadedConfig
  /\ handler = Idle
  /\ resetter = Asleep
  /\ MINIMUM_USD_VALUE \in Thresholds
  /\ crypto_prices = [btc |-> 0, eth |-> 0]
  /\ processed_transactions = {}
  /\ filtered_transactions = {}
  /\ address_stats = [c \in Chains |-> [a \in MONITORED_ADDRESSES[c] |-> ZeroStats]]
  /\ health_status = [websocket_btc |-> "disconnected", websocket_eth |-> "disconnected",
                      total_alerts |-> 0, total_filtered |-> 0, errors_count |-> 0,
                      last_price_update |-> 0]
  /\ frame_in = NoFrame
  /\ ws_pc = "first"
  /\ conn = "none"
  /\ sends = [h \in Hashes |-> 0]
  /\ verdicts = [h \in Hashes |-> 0]
  /\ filt_cycle = {}
  /\ since_reset = [a \in MONITORED_ADDRESSES["btc"] |-> 0]
  /\ nverdicts = 0
  /\ last = NoLast

\* ------------------------------------------------------------ stat updates
\* bot.py 344-346 (format_btc_message): the per-address part of an alert.
AlertStats(stats, matched_address, usd_value) ==
  [stats EXCEPT !["btc"][matched_address].alerts = @ + 1,
                !["btc"][matched_address].total_value = @ + usd_value]

\* bot.py 424: the per-address part of a Filtered verdict.
FilteredStats(stats, output_addr) ==
  [stats EXCEPT !["btc"][output_addr].filtered_count = @ + 1]

\* Mutant of ResetStats: alerts is left as it is.
ResetKeepsAlerts(stats) ==
  [c \in DOMAIN stats |->
     [a \in DOMAIN stats[c] |-> [stats[c][a] EXCEPT !.filtered_count = 0]]]

\* Mutant of ResetStats: total_value is zeroed as well.
ResetAlsoValue(stats) ==
  [c \in DOMAIN stats |->
     [a \in DOMAIN stats[c] |-> [alerts |-> 0, total_value |-> 0, filtered_count |-> 0]]]

\* bot.py 502-505 (reset_daily_stats): the daily counters of every address.
ResetStats(stats) ==
  [c \in DOMAIN stats |->
     [a \in DOMAIN stats[c] |-> [stats[c][a] EXCEPT !.alerts = 0, !.filtered_count = 0]]]

\* Mutant of MarkSeen: the hash is not recorded.
NotMarked(processed, tx_hash) == processed

\* bot.py 426 / 414: the dedup set after a hash was marked.
MarkSeen(processed, tx_hash) == processed \cup {tx_hash}

\* bot.py 413-420: the dedup set after bot.send_message returned (ok) or raised.
AfterSend(processed, tx_hash, ok) ==
  IF ok THEN MarkSeen(processed, tx_hash) ELSE processed

\* Mutant of ClearedSet: the clear evicts one id only.
ClearsOne(processed) ==
  IF processed = {} THEN {} ELSE processed \ {CHOOSE h \in processed : TRUE}

\* bot.py 493: the dedup set after the 24 h clear.
ClearedSet(processed) == {}

Bump(f, k) == [f EXCEPT ![k] = @ + 1]
\* Mutant of AddError: the error is logged but not counted.
NotCounted(h) == h

\* bot.py 420 / 435 / 440 / 468 / 201: health_status['errors_count'] += 1.
AddError(h) == [h EXCEPT !.errors_count = @ + 1]

matcher_vars == <<processed_transactions, filtered_transactions, address_stats,
                  verdicts, sends, filt_cycle, since_reset, nverdicts>>
conn_vars == <<ws_pc, conn>>

\* ------------------------------------------------------- on_btc_message
\* bot.py 380-435: the handler of one frame; ok is whether the bot.send_message
\* call of line 413 returns (it is made on the alert path only).
OnBtcMessage(frame, ok) ==
  /\ ws_pc = "run_forever" /\ conn = "open"
  /\ LET g == Gate(frame, processed_transactions)
         v == ScanOutputs(frame, 1, crypto_prices.btc, MINIMUM_USD_VALUE)
     IN \/ /\ g = "parse_error" /\ ok
           /\ health_status.errors_count < MaxErrors
           /\ health_status' = AddError(health_status)
           /\ last' = MsgLast(frame, "parse_error", v)
           /\ UNCHANGED matcher_vars
        \/ /\ g \in {"not_utx", "no_hash", "seen"} /\ ok
           /\ last' = MsgLast(frame, g, v)
           /\ UNCHANGED <<health_status, matcher_vars>>
        \/ /\ g = "scan" /\ v.kind = "none" /\ ok
           /\ last' = MsgLast(frame, "ignored", v)
           /\ UNCHANGED <<health_status, matcher_vars>>
        \/ \* tx_hash[:10] in the log line 430 raises for a hash that is no string,
           \* after lines 424-427 were run; line 433 catches it.
           /\ g = "scan" /\ v.kind = "filtered" /\ ok
           /\ nverdicts < MaxVerdicts
           /\ frame.hash = IntHash => health_status.errors_count < MaxErrors
           /\ address_stats' = FilteredStats(address_stats, v.addr)
           /\ health_status' =
                LET h == [health_status EXCEPT !.total_filtered = @ + 1]
                IN IF frame.hash = IntHash THEN AddError(h) ELSE h
           /\ processed_transactions' = MarkSeen(processed_transactions, frame.hash)
           /\ filtered_transactions' = filtered_transactions \cup {frame.hash}
           /\ verdicts' = Bump(verdicts, frame.hash)
           /\ filt_cycle' = filt_cycle \cup {frame.hash}
           /\ nverdicts' = nverdicts + 1
           /\ last' = MsgLast(frame, "filtered", v)
           /\ UNCHANGED <<sends, since_reset>>
        \/ /\ g = "scan" /\ v.kind = "alert" /\ frame.hash \in StrHashes
           /\ nverdicts < MaxVerdicts
           /\ ok \/ health_status.errors_count < MaxErrors
           /\ address_stats' = AlertStats(address_stats, v.addr, v.usd)
           /\ health_status' =
                LET h == [health_status EXCEPT !.total_alerts = @ + 1]
                IN IF ok THEN h ELSE AddError(h)
           /\ processed_transactions' = AfterSend(processed_transactions, frame.hash, ok)
           /\ verdicts' = Bump(verdicts, frame.hash)
           /\ sends' = Bump(sends, frame.hash)
           /\ since_reset' = Bump(since_reset, v.addr)
           /\ nverdicts' = nverdicts + 1
           /\ last' = MsgLast(frame, IF ok THEN "alert" ELSE "alert_unsent", v)
           /\ UNCHANGED <<filtered_transactions, filt_cycle>>
        \/ \* tx_hash[:20] at line 370 raises for a hash that is no string, after
           \* the statistics of lines 345-347 were written; line 433 catches it.
           /\ g = "scan" /\ v.kind = "alert" /\ frame.hash = IntHash /\ ok
           /\ nverdicts < MaxVerdicts
           /\ health_status.errors_count < MaxErrors
           /\ address_stats' = AlertStats(address_stats, v.addr, v.usd)
           /\ health_status' = AddError([health_status EXCEPT !.total_alerts = @ + 1])
           /\ verdicts' = Bump(verdicts, frame.hash)
           /\ since_reset' = Bump(since_reset, v.addr)
           /\ nverdicts' = nverdicts + 1
           /\ last' = MsgLast(frame, "exception", v)
           /\ UNCHANGED <<processed_transactions, filtered_transactions, sends, filt_cycle>>
  /\ UNCHANGED <<config, resetter, handler, MINIMUM_USD_VALUE, crypto_prices, frame_in, conn_vars>>

\* ------------------------------------------------------------ periodic tasks
\* Mutant of CleanupProcessedTransactions: the clear empties both sets.
CleanupClearsBoth ==
  /\ processed_transactions' = ClearedSet(processed_transactions)
  /\ filtered_transactions' = {}
  /\ verdicts' = [h \in Hashes |-> 0]
  /\ sends' = [h \in Hashes |-> 0]
  /\ filt_cycle' = {}
  /\ last' = NoLast
  /\ UNCHANGED <<config, resetter, handler, MINIMUM_USD_VALUE, frame_in, crypto_prices, address_stats,
                 health_status, conn_vars, since_reset, nverdicts>>

\* bot.py 488-494: one wake-up of cleanup_processed_transactions.
CleanupProcessedTransactions ==
  /\ processed_transactions' = ClearedSet(processed_transactions)
  /\ verdicts' = [h \in Hashes |-> 0]
  /\ sends' = [h \in Hashes |-> 0]
  /\ filt_cycle' = {}
  /\ last' = NoLast
  /\ UNCHANGED <<config, resetter, handler, MINIMUM_USD_VALUE, frame_in, crypto_prices, filtered_transactions, address_stats,
                 health_status, conn_vars, since_reset, nverdicts>>

\* bot.py 500-527: one wake-up of reset_daily_stats; ok is whether the
\* announcement of line 525 is sent (its failure is logged only).
ResetDailyStats(ok) ==
  /\ address_stats' = ResetStats(address_stats)
  /\ health_status' = [health_status EXCEPT !.total_alerts = 0, !.total_filtered = 0]
  /\ since_reset' = [a \in MONITORED_ADDRESSES["btc"] |-> 0]
  /\ last' = [NoLast EXCEPT !.op = "reset", !.outcome = IF ok THEN "sent" ELSE "unsent"]
  /\ UNCHANGED <<config, resetter, handler, MINIMUM_USD_VALUE, frame_in, crypto_prices, processed_transactions,
                 filtered_transactions, conn_vars, verdicts, sends, filt_cycle, nverdicts>>

\* bot.py 269-333: send_daily_report, called by send_health_periodically
\* (482-486); it reads the statistics and the prices and sends the text; ok is
\* whether bot.send_message of line 330 returns (its failure is logged only).
SendDailyReport(ok) ==
  /\ last' = [NoLast EXCEPT !.op = "report", !.outcome = IF ok THEN "sent" ELSE "unsent"]
  /\ UNCHANGED <<config, resetter, handler, MINIMUM_USD_VALUE, frame_in, crypto_prices, health_status,
                 matcher_vars, conn_vars>>

\* bot.py 203-267: send_startup_summary; ok is whether bot.send_message of line
\* 264 returns (its failure is logged only).
SendStartupSummary(ok) ==
  /\ last' = [NoLast EXCEPT !.op = "startup", !.outcome = IF ok THEN "sent" ELSE "unsent"]
  /\ UNCHANGED <<config, resetter, handler, MINIMUM_USD_VALUE, frame_in, crypto_prices, health_status,
                 matcher_vars, conn_vars>>

\* ------------------------------------------------------- reporting surface
\* bot.py 44-183: the Flask routes; each builds its response from reads of
\* address_stats, health_status, crypto_prices and the configuration.
Served(route) ==
  /\ last' = [NoLast EXCEPT !.op = "http", !.outcome = route]
  /\ UNCHANGED <<config, resetter, handler, MINIMUM_USD_VALUE, frame_in, crypto_prices, health_status,
                 matcher_vars, conn_vars>>

\* Mutant of health_check: the route zeroes the counter it reports.
HealthCheckZeroes ==
  /\ last' = [NoLast EXCEPT !.op = "http", !.outcome = "/health"]
  /\ health_status' = [health_status EXCEPT !.total_alerts = 0]
  /\ UNCHANGED <<config, resetter, handler, MINIMUM_USD_VALUE, frame_in, crypto_prices, matcher_vars, conn_vars>>

\* bot.py 44-89.
health_check == Served("/health")
\* bot.py 91-125.
list_addresses == Served("/addresses")
\* bot.py 127-157.
get_stats == Served("/stats")
\* bot.py 159-161.
ping == Served("/ping")
\* bot.py 163-183.
index == Served("/")

\* The response of the price API: per asset an entry with a price, no entry
\* (Missing), or an entry that is no JSON object (Malformed: data.get(asset, {})
\* then returns a value without .get, and the second .get raises).
Missing == -1
Malformed == -2
PriceResponses ==
  [bitcoin : (Prices \ {0}) \cup {Missing, Malformed}, ethereum : {3000, Missing, Malformed}]
FeedResponses == [bitcoin : Prices \ {0}, ethereum : {3000}]

\* Mutant of PriceOf: an asset missing from the response keeps its price.
KeepsKnown(data, asset) ==
  IF data[asset] = Missing
  THEN crypto_prices[IF asset = "bitcoin" THEN "btc" ELSE "eth"]
  ELSE data[asset]

\* bot.py 194-195: data.get(asset, {}).get('usd', 0).
PriceOf(data, asset) == IF data[asset] = Missing THEN 0 ELSE data[asset]

\* bot.py 190-195, 199: the prices when the refresh raises: requests.get or
\* response.json() raised (~ok), or line 194 raised, and nothing was assigned;
\* or line 195 raised after line 194 had assigned the BTC price.
PricesAfterFailure(prices, data, ok) ==
  IF ok /\ data.bitcoin # Malformed
  THEN [prices EXCEPT !.btc = PriceOf(data, "bitcoin")]
  ELSE prices

\* bot.py 185-201: get_crypto_prices; ok is whether the request of line 190 and
\* the decoding of line 191 return, data is the decoded response.
GetCryptoPrices(ok, data) ==
  /\ IF ok /\ data.bitcoin # Malformed /\ data.ethereum # Malformed
     THEN /\ health_status.last_price_update < MaxRefresh
          /\ crypto_prices' = [btc |-> PriceOf(data, "bitcoin"), eth |-> PriceOf(data, "ethereum")]
          /\ health_status' = [health_status EXCEPT !.last_price_update = @ + 1]
          /\ last' = [NoLast EXCEPT !.op = "prices", !.outcome = "ok",
                                    !.would = IF crypto_prices.btc > 0 /\ PriceOf(data, "bitcoin") = 0
                                              THEN "zeroed" ELSE "none"]
     ELSE /\ health_status.errors_count < MaxErrors
          /\ crypto_prices' = PricesAfterFailure(crypto_prices, data, ok)
          /\ health_status' = AddError(health_status)
          /\ last' = [NoLast EXCEPT !.op = "prices", !.outcome = "failed"]
  /\ UNCHANGED <<config, resetter, handler, MINIMUM_USD_VALUE, frame_in, matcher_vars, conn_vars>>

\* ------------------------------------------------------------- the connector
\* bot.py 454-464: the top of the loop of run_btc_ws; ws_pc says how the loop got
\* there: "first" (thread start), "returned" (run_forever returned), "slept"
\* (the sleep of line 469 is over).
WsConnect ==
  /\ ws_pc \in {"first", "returned", "slept"}
  /\ health_status' = [health_status EXCEPT !.websocket_btc = "connecting"]
  /\ ws_pc' = "run_forever"
  /\ conn' = "opening"
  /\ last' = [NoLast EXCEPT !.op = "connect", !.outcome = ws_pc]
  /\ UNCHANGED <<config, resetter, handler, MINIMUM_USD_VALUE, frame_in, crypto_prices, matcher_vars>>

\* bot.py 446-450: on_btc_open.
OnBtcOpen ==
  /\ ws_pc = "run_forever" /\ conn = "opening"
  /\ health_status' = [health_status EXCEPT !.websocket_btc = "connected"]
  /\ conn' = "open"
  /\ last' = NoLast
  /\ UNCHANGED <<config, resetter, handler, MINIMUM_USD_VALUE, frame_in, crypto_prices, matcher_vars, ws_pc>>

\* bot.py 437-440: on_btc_error, called by run_forever on a transport error.
OnBtcError ==
  /\ ws_pc = "run_forever" /\ conn \in {"opening", "open"}
  /\ health_status.errors_count < MaxErrors
  /\ health_status' = AddError([health_status EXCEPT !.websocket_btc = "error"])
  /\ conn' = "errored"
  /\ last' = NoLast
  /\ UNCHANGED <<config, resetter, handler, MINIMUM_USD_VALUE, frame_in, crypto_prices, matcher_vars, ws_pc>>

\* bot.py 442-444: on_btc_close, called by run_forever when the connection ends.
OnBtcClose ==
  /\ ws_pc = "run_forever" /\ conn \in {"opening", "open", "errored"}
  /\ health_status' = [health_status EXCEPT !.websocket_btc = "disconnected"]
  /\ conn' = "closed"
  /\ last' = NoLast
  /\ UNCHANGED <<config, resetter, handler, MINIMUM_USD_VALUE, frame_in, crypto_prices, matcher_vars, ws_pc>>

\* bot.py 464: ws.run_forever() returns after the connection ended; the while
\* loop of line 454 goes round at once (no statement follows the try block).
RunForeverReturns ==
  /\ ws_pc = "run_forever" /\ conn \in {"errored", "closed"}
  /\ ws_pc' = "returned"
  /\ conn' = "none"
  /\ last' = NoLast
  /\ UNCHANGED <<config, resetter, handler, MINIMUM_USD_VALUE, frame_in, crypto_prices, health_status, matcher_vars>>

\* bot.py 465-468: an exception leaves WebSocketApp(...) or run_forever().
RunForeverRaises ==
  /\ ws_pc = "run_forever"
  /\ health_status.errors_count < MaxErrors
  /\ health_status' = AddError([health_status EXCEPT !.websocket_btc = "error"])
  /\ ws_pc' = "sleep"
  /\ conn' = "none"
  /\ last' = NoLast
  /\ UNCHANGED <<config, resetter, handler, MINIMUM_USD_VALUE, frame_in, crypto_prices, matcher_vars>>

\* Mutant of BackoffDone: the thread ends after the sleep instead of looping.
BackoffExits ==
  /\ ws_pc = "sleep"
  /\ ws_pc' = "exited"
  /\ last' = NoLast
  /\ UNCHANGED <<config, resetter, handler, MINIMUM_USD_VALUE, frame_in, crypto_prices, health_status, matcher_vars, conn>>

\* bot.py 469: time.sleep(10) is over.
BackoffDone ==
  /\ ws_pc = "sleep"
  /\ ws_pc' = "slept"
  /\ last' = NoLast
  /\ UNCHANGED <<config, resetter, handler, MINIMUM_USD_VALUE, frame_in, crypto_prices, health_status, matcher_vars, conn>>

\* ------------------------------------------------------------ specification
Next ==
  \/ \E frame \in FeedFrames, ok \in BOOLEAN : OnBtcMessage(frame, ok)
  \/ CleanupProcessedTransactions
  \/ \E ok \in BOOLEAN : ResetDailyStats(ok)
  \/ \E ok \in BOOLEAN, data \in FeedResponses : GetCryptoPrices(ok, data)
  \/ WsConnect
  \/ OnBtcOpen
  \/ OnBtcError
  \/ OnBtcClose
  \/ RunForeverReturns
  \/ RunForeverRaises
  \/ BackoffDone

Spec == Init /\ [][Next]_vars

\* bot.py 452-474: run_btc_ws is a thread of its own, so each of its steps is
\* taken once it stays possible: the sleep ends, run_forever returns once the
\* connection has ended, and the loop goes round.
ConnectorFairness ==
  /\ WF_vars(WsConnect)
  /\ WF_vars(RunForeverReturns)
  /\ WF_vars(BackoffDone)

SpecLive == Init /\ [][Next]_vars /\ ConnectorFairness

\* The whole program with its summaries and its request-serving surface.
NextReport ==
  \/ Next
  \/ \E ok \in BOOLEAN : SendDailyReport(ok)
  \/ \E ok \in BOOLEAN : SendStartupSummary(ok)
  \/ health_check
  \/ list_addresses
  \/ get_stats
  \/ ping
  \/ index

SpecReport == Init /\ [][NextReport]_vars

\* The program while the feed delivers no frame: the price thread, with every
\* response the API can give, and the connector.
NextPrices ==
  \/ \E ok \in BOOLEAN, data \in PriceResponses : GetCryptoPrices(ok, data)
  \/ WsConnect
  \/ OnBtcOpen
  \/ OnBtcError
  \/ OnBtcClose
  \/ RunForeverReturns
  \/ RunForeverRaises
  \/ BackoffDone

SpecPrices == Init /\ [][NextPrices]_vars

\* on_btc_message applied once: a frame of Frames is in flight on an open
\* connection; the threshold, the price, the dedup set and the statistics left by
\* an earlier alert for A are drawn from the values the program can hold.
PriorStats(prior) ==
  IF prior THEN [alerts |-> 1, total_value |-> 5000 * 50000, filtered_count |-> 0]
  ELSE ZeroStats

InitClassify ==
  /\ config = LoadedConfig
  /\ handler = Idle
  /\ resetter = Asleep
  /\ MINIMUM_USD_VALUE \in Thresholds
  /\ \E p \in Prices : crypto_prices = [btc |-> p, eth |-> 0]
  /\ processed_transactions \in SUBSET StrHashes
  /\ filtered_transactions = {}
  /\ \E prior \in BOOLEAN :
        /\ address_stats = [c \in Chains |-> [a \in MONITORED_ADDRESSES[c] |->
                              IF a = "A" THEN PriorStats(prior) ELSE ZeroStats]]
        /\ health_status = [websocket_btc |-> "connected", websocket_eth |-> "disconnected",
                            total_alerts |-> (IF prior THEN 1 ELSE 0), total_filtered |-> 0,
                            errors_count |-> 0, last_price_update |-> 1]
        /\ since_reset = [a \in MONITORED_ADDRESSES["btc"] |->
                            IF prior /\ a = "A" THEN 1 ELSE 0]
        /\ nverdicts = (IF prior THEN 1 ELSE 0)
  /\ frame_in \in Frames
  /\ ws_pc = "run_forever"
  /\ conn = "open"
  /\ sends = [h \in Hashes |-> IF h \in processed_transactions THEN 1 ELSE 0]
  /\ verdicts = [h \in Hashes |-> IF h \in processed_transactions THEN 1 ELSE 0]
  /\ filt_cycle = {}
  /\ last = NoLast

Deliver(ok) ==
  /\ last.op = "none"
  /\ OnBtcMessage(frame_in, ok)

NextClassify == \E ok \in BOOLEAN : Deliver(ok)

SpecClassify == InitClassify /\ [][NextClassify]_vars

\* The import of config.py: the address list of one chain is parsed from the
\* text of its environment variable, before anything else runs.
InitLoad ==
  /\ \E env \in EnvLists : config = [env |-> env, loaded |-> FALSE, addresses |-> <<>>]
  /\ handler = Idle
  /\ resetter = Asleep
  /\ MINIMUM_USD_VALUE \in Thresholds
  /\ crypto_prices = [btc |-> 0, eth |-> 0]
  /\ processed_transactions = {}
  /\ filtered_transactions = {}
  /\ address_stats = [c \in Chains |-> [a \in MONITORED_ADDRESSES[c] |-> ZeroStats]]
  /\ health_status = [websocket_btc |-> "disconnected", websocket_eth |-> "disconnected",
                      total_alerts |-> 0, total_filtered |-> 0, errors_count |-> 0,
                      last_price_update |-> 0]
  /\ frame_in = NoFrame
  /\ ws_pc = "first"
  /\ conn = "none"
  /\ sends = [h \in Hashes |-> 0]
  /\ verdicts = [h \in Hashes |-> 0]
  /\ filt_cycle = {}
  /\ since_reset = [a \in MONITORED_ADDRESSES["btc"] |-> 0]
  /\ nverdicts = 0
  /\ last = NoLast

\* config.py 66-70: MONITORED_ADDRESSES[chain] = parse_addresses(...).
LoadAddresses ==
  /\ ~config.loaded
  /\ config' = [config EXCEPT !.loaded = TRUE, !.addresses = parse_addresses(config.env)]
  /\ UNCHANGED <<handler, resetter, MINIMUM_USD_VALUE, crypto_prices, processed_transactions,
                 filtered_transactions, address_stats, health_status, frame_in, ws_pc,
                 conn, sends, verdicts, filt_cycle, since_reset, nverdicts, last>>

SpecLoad == InitLoad /\ [][LoadAddresses]_vars

\* on_btc_message taken line by line on its alert path (bot.py 407-421 and
\* format_btc_message 345-370): a frame of the feed is in flight on an open
\* connection; handler holds the line the thread is at (returned once the
\* handler is left), with the hash, the matched address and the USD value of the
\* alert.
InitSteps ==
  /\ config = LoadedConfig
  /\ handler = Idle
  /\ resetter = Asleep
  /\ MINIMUM_USD_VALUE \in Thresholds
  /\ \E p \in Prices : crypto_prices = [btc |-> p, eth |-> 0]
  /\ processed_transactions \in SUBSET StrHashes
  /\ filtered_transactions = {}
  /\ \E prior \in BOOLEAN :
        /\ address_stats = [c \in Chains |-> [a \in MONITORED_ADDRESSES[c] |->
                              IF a = "A" THEN PriorStats(prior) ELSE ZeroStats]]
        /\ health_status = [websocket_btc |-> "connected", websocket_eth |-> "disconnected",
                            total_alerts |-> (IF prior THEN 1 ELSE 0), total_filtered |-> 0,
                            errors_count |-> 0, last_price_update |-> 1]
        /\ since_reset = [a \in MONITORED_ADDRESSES["btc"] |->
                            IF prior /\ a = "A" THEN 1 ELSE 0]
        /\ nverdicts = (IF prior THEN 1 ELSE 0)
  /\ frame_in \in FeedFrames
  /\ ws_pc = "run_forever"
  /\ conn = "open"
  /\ sends = [h \in Hashes |-> IF h \in processed_transactions THEN 1 ELSE 0]
  /\ verdicts = [h \in Hashes |-> IF h \in processed_transactions THEN 1 ELSE 0]
  /\ filt_cycle = {}
  /\ last = NoLast

\* bot.py 381-410 and 345: the frame passed the gate, the scan decided an alert
\* (lines 407 and 409), format_btc_message is entered and its line 345 counts
\* the alert of the matched address.
Line345 ==
  /\ handler.pc = "idle"
  /\ ws_pc = "run_forever" /\ conn = "open"
  /\ Gate(frame_in, processed_transactions) = "scan"
  /\ nverdicts < MaxVerdicts
  /\ LET v == ScanOutputs(frame_in, 1, crypto_prices.btc, MINIMUM_USD_VALUE)
     IN /\ v.kind = "alert"
        /\ handler' = [pc |-> "l346", hash |-> frame_in.hash, addr |-> v.addr, usd |-> v.usd]
        /\ address_stats' = [address_stats EXCEPT !["btc"][v.addr].alerts = @ + 1]
        /\ verdicts' = Bump(verdicts, frame_in.hash)
        /\ since_reset' = Bump(since_reset, v.addr)
        /\ nverdicts' = nverdicts + 1
  /\ UNCHANGED <<config, resetter, MINIMUM_USD_VALUE, crypto_prices, processed_transactions,
                 filtered_transactions, health_status, frame_in, conn_vars, sends,
                 filt_cycle, last>>

\* bot.py 346: the USD value is added to the total of the matched address.
Line346 ==
  /\ handler.pc = "l346"
  /\ handler' = [handler EXCEPT !.pc = "l347"]
  /\ address_stats' = [address_stats EXCEPT !["btc"][handler.addr].total_value = @ + handler.usd]
  /\ UNCHANGED <<config, resetter, MINIMUM_USD_VALUE, crypto_prices, processed_transactions,
                 filtered_transactions, health_status, frame_in, conn_vars, sends, verdicts,
                 filt_cycle, since_reset, nverdicts, last>>

\* bot.py 347: the global alert counter.
Line347 ==
  /\ handler.pc = "l347"
  /\ handler' = [handler EXCEPT !.pc = "l370"]
  /\ health_status' = [health_status EXCEPT !.total_alerts = @ + 1]
  /\ UNCHANGED <<config, resetter, MINIMUM_USD_VALUE, crypto_prices, processed_transactions,
                 filtered_transactions, address_stats, frame_in, conn_vars, sends, verdicts,
                 filt_cycle, since_reset, nverdicts, last>>

\* bot.py 360-377: the text is built; tx_hash[:20] of line 370 raises for a hash
\* that is no string, line 433 catches it and line 435 counts the error.
Line370 ==
  /\ handler.pc = "l370"
  /\ IF handler.hash = IntHash
     THEN /\ health_status.errors_count < MaxErrors
          /\ health_status' = AddError(health_status)
          /\ handler' = [handler EXCEPT !.pc = "returned"]
          /\ last' = [NoLast EXCEPT !.op = "msg", !.outcome = "exception"]
     ELSE /\ handler' = [handler EXCEPT !.pc = "l413"]
          /\ UNCHANGED <<health_status, last>>
  /\ UNCHANGED <<config, resetter, MINIMUM_USD_VALUE, crypto_prices, processed_transactions,
                 filtered_transactions, address_stats, frame_in, conn_vars, sends, verdicts,
                 filt_cycle, since_reset, nverdicts>>

\* bot.py 413 and 418-421: bot.send_message is called; ok is whether it returns.
Line413(ok) ==
  /\ handler.pc = "l413"
  /\ sends' = Bump(sends, handler.hash)
  /\ IF ok
     THEN /\ handler' = [handler EXCEPT !.pc = "l414"]
          /\ UNCHANGED <<health_status, last>>
     ELSE /\ health_status.errors_count < MaxErrors
          /\ health_status' = AddError(health_status)
          /\ handler' = [handler EXCEPT !.pc = "returned"]
          /\ last' = [NoLast EXCEPT !.op = "msg", !.outcome = "alert_unsent"]
  /\ UNCHANGED <<config, resetter, MINIMUM_USD_VALUE, crypto_prices, processed_transactions,
                 filtered_transactions, address_stats, frame_in, conn_vars, verdicts,
                 filt_cycle, since_reset, nverdicts>>

\* bot.py 414-421: the hash is added to the dedup set and the handler returns.
Line414 ==
  /\ handler.pc = "l414"
  /\ processed_transactions' = MarkSeen(processed_transactions, handler.hash)
  /\ handler' = [handler EXCEPT !.pc = "returned"]
  /\ last' = [NoLast EXCEPT !.op = "msg", !.outcome = "alert"]
  /\ UNCHANGED <<config, resetter, MINIMUM_USD_VALUE, crypto_prices, filtered_transactions,
                 address_stats, health_status, frame_in, conn_vars, sends, verdicts,
                 filt_cycle, since_reset, nverdicts>>

NextSteps ==
  \/ Line345
  \/ Line346
  \/ Line347
  \/ Line370
  \/ \E ok \in BOOLEAN : Line413(ok)
  \/ Line414

SpecSteps == InitSteps /\ [][NextSteps]_vars

\* reset_daily_stats taken line by line (bot.py 496-527), next to the alert
\* path of on_btc_message and to the Flask routes: the threads of the process
\* share address_stats and health_status without a lock.
\* bot.py 502-503: the order in which the loops visit the addresses (the
\* insertion order of the dicts of lines 29-32).
ResetOrder == <<<<"btc", "A">>, <<"btc", "B">>, <<"eth", "E">>>>

\* bot.py 500-501: time.sleep(86400) is over.
ResetWakes ==
  /\ resetter.pc = "sleep"
  /\ resetter.cycle < MaxCycles
  /\ resetter' = [resetter EXCEPT !.pc = "l504", !.todo = ResetOrder]
  /\ UNCHANGED <<config, handler, MINIMUM_USD_VALUE, crypto_prices, processed_transactions,
                 filtered_transactions, address_stats, health_status, frame_in, conn_vars,
                 sends, verdicts, filt_cycle, since_reset, nverdicts, last>>

\* bot.py 504-505: one round of the inner loop zeroes the two daily counters of
\* one address.
ResetLine504 ==
  /\ resetter.pc = "l504"
  /\ LET c == Head(resetter.todo)[1]
         a == Head(resetter.todo)[2]
     IN /\ address_stats' = [address_stats EXCEPT ![c][a].alerts = 0, ![c][a].filtered_count = 0]
        /\ since_reset' = [b \in DOMAIN since_reset |->
                             IF c = "btc" /\ b = a THEN 0 ELSE since_reset[b]]
  /\ resetter' = [resetter EXCEPT !.todo = Tail(@),
                                  !.pc = IF Len(resetter.todo) = 1 THEN "l508" ELSE "l504"]
  /\ UNCHANGED <<config, handler, MINIMUM_USD_VALUE, crypto_prices, processed_transactions,
                 filtered_transactions, health_status, frame_in, conn_vars, sends, verdicts,
                 filt_cycle, nverdicts, last>>

\* bot.py 508: health_status['total_alerts'] = 0.
ResetLine508 ==
  /\ resetter.pc = "l508"
  /\ health_status' = [health_status EXCEPT !.total_alerts = 0]
  /\ resetter' = [resetter EXCEPT !.pc = "l509"]
  /\ UNCHANGED <<config, handler, MINIMUM_USD_VALUE, crypto_prices, processed_transactions,
                 filtered_transactions, address_stats, frame_in, conn_vars, sends, verdicts,
                 filt_cycle, since_reset, nverdicts, last>>

\* bot.py 509: health_status['total_filtered'] = 0.
ResetLine509 ==
  /\ resetter.pc = "l509"
  /\ health_status' = [health_status EXCEPT !.total_filtered = 0]
  /\ resetter' = [resetter EXCEPT !.pc = "l525"]
  /\ UNCHANGED <<config, handler, MINIMUM_USD_VALUE, crypto_prices, processed_transactions,
                 filtered_transactions, address_stats, frame_in, conn_vars, sends, verdicts,
                 filt_cycle, since_reset, nverdicts, last>>

\* Mutant of ResetLine525: a failed announcement ends the thread.
ResetLine525Fatal(ok) ==
  /\ resetter.pc = "l525"
  /\ resetter' = [resetter EXCEPT !.pc = IF ok THEN "sleep" ELSE "dead", !.cycle = @ + 1, !.unsent = ~ok]
  /\ UNCHANGED <<config, handler, MINIMUM_USD_VALUE, crypto_prices, processed_transactions,
                 filtered_transactions, address_stats, health_status, frame_in, conn_vars,
                 sends, verdicts, filt_cycle, since_reset, nverdicts, last>>

\* bot.py 514-527: the announcement is sent; ok is whether bot.send_message of
\* line 525 returns (its failure is logged only); the while loop of line 499
\* goes round to the sleep of line 500.
ResetLine525(ok) ==
  /\ resetter.pc = "l525"
  /\ resetter' = [resetter EXCEPT !.pc = "sleep", !.cycle = @ + 1, !.unsent = ~ok]
  /\ UNCHANGED <<config, handler, MINIMUM_USD_VALUE, crypto_prices, processed_transactions,
                 filtered_transactions, address_stats, health_status, frame_in, conn_vars,
                 sends, verdicts, filt_cycle, since_reset, nverdicts, last>>

NextRace ==
  \/ Line345
  \/ Line346
  \/ Line347
  \/ Line370
  \/ \E ok \in BOOLEAN : Line413(ok)
  \/ Line414
  \/ ResetWakes
  \/ ResetLine504
  \/ ResetLine508
  \/ ResetLine509
  \/ \E ok \in BOOLEAN : ResetLine525(ok)
  \/ health_check
  \/ list_addresses
  \/ get_stats

SpecRace == InitSteps /\ [][NextRace]_vars

\* ================================================================= claims
Btc(stats, a) == stats["btc"][a]
Watched == MONITORED_ADDRESSES["btc"]
\* The first incoming output of the frame in flight (defined when there is one).
FirstOut == frame_in.out[FirstIncoming(frame_in, 1)]
\* The frame in flight is a transaction with a string id the dedup set does not hold.
UnseenTx ==
  /\ frame_in.json /\ frame_in.op = "utx"
  /\ frame_in.hash \in StrHashes /\ frame_in.hash \notin processed_transactions

\* C1: for every transaction id, between two clears of processed_transactions
\* at most one verdict (one stat mutation) is applied for it and at most one
\* notification is sent for it, whatever the outcome of the send.
C1_DedupIdempotence == \A h \in StrHashes : verdicts[h] <= 1 /\ sends[h] <= 1

\* C2: a frame whose transaction id is in processed_transactions when
\* on_btc_message handles it changes no per-address stat, no global counter,
\* not the dedup set and sends no notification.
C2_SeenSkipped ==
  [][frame_in.hash \in processed_transactions =>
       UNCHANGED <<address_stats, health_status, processed_transactions,
                   filtered_transactions, sends, verdicts>>]_vars

\* C2 witness: a frame with a seen id was handled that would otherwise have alerted.
C2_Witness ==
  /\ last.op = "msg" /\ last.outcome = "seen" /\ last.would = "alert"
  /\ frame_in.hash \in processed_transactions

\* C3: a frame with an unseen id whose first incoming output carries an amount > 0
\* gets exactly one verdict, on that output's address: Alertable (alerts + 1,
\* total_value + fiat, total_alerts + 1, one notification) when fiat >= threshold,
\* Filtered (filtered_count + 1, total_filtered + 1, total_value kept, no
\* notification) when fiat < threshold; nothing else of the statistics changes.
C3_OneVerdict ==
  [][(UnseenTx /\ FirstIncoming(frame_in, 1) # 0 /\ FirstOut.value > 0) =>
       LET a == FirstOut.addr
           fiat == FirstOut.value * crypto_prices.btc
           h == frame_in.hash
       IN IF fiat >= MINIMUM_USD_VALUE
          THEN /\ address_stats' =
                    [address_stats EXCEPT !["btc"][a].alerts = @ + 1,
                                          !["btc"][a].total_value = @ + fiat]
               /\ health_status'.total_alerts = health_status.total_alerts + 1
               /\ health_status'.total_filtered = health_status.total_filtered
               /\ sends' = [sends EXCEPT ![h] = @ + 1]
               /\ verdicts' = [verdicts EXCEPT ![h] = @ + 1]
          ELSE /\ address_stats' =
                    [address_stats EXCEPT !["btc"][a].filtered_count = @ + 1]
               /\ health_status'.total_filtered = health_status.total_filtered + 1
               /\ health_status'.total_alerts = health_status.total_alerts
               /\ sends' = sends
               /\ verdicts' = [verdicts EXCEPT ![h] = @ + 1]]_vars

\* C3 witness: an alert was raised for a transfer worth exactly the threshold.
C3_Witness ==
  /\ last.op = "msg" /\ last.outcome = "alert"
  /\ FirstIncoming(frame_in, 1) # 0
  /\ MINIMUM_USD_VALUE > 0
  /\ FirstOut.value * crypto_prices.btc = MINIMUM_USD_VALUE
  /\ Btc(address_stats, FirstOut.addr).alerts >= 1

\* The source addresses of the inputs of a transaction.
InputAddrs(tx) == {tx.inputs[i] : i \in 1..Len(tx.inputs)} \ {NoPrevOut}
\* The outputs of the frame in flight that go to a watched address.
WatchedOuts == {i \in 1..Len(frame_in.out) : frame_in.out[i].addr \in Watched}
\* Each output of the frame in flight to a watched address goes to an address
\* that is also a source of one of its inputs.
RoundTripOnly ==
  /\ frame_in.json /\ frame_in.op = "utx"
  /\ \A i \in WatchedOuts : frame_in.out[i].addr \in InputAddrs(frame_in)

\* C4: a transaction whose outputs to watched addresses all go to addresses that
\* are also input sources gets no verdict: no stat, no global counter, no
\* notification and the dedup set unchanged; and an address gets an Alertable
\* verdict only if it is an output destination and no input source.
C4_RoundTripExcluded ==
  [][/\ RoundTripOnly =>
          UNCHANGED <<address_stats, health_status, processed_transactions,
                      filtered_transactions, sends, verdicts>>
     /\ \A a \in Watched :
          Btc(address_stats', a).alerts > Btc(address_stats, a).alerts =>
            /\ \E i \in WatchedOuts : frame_in.out[i].addr = a
            /\ a \notin InputAddrs(frame_in)]_vars

\* C4 witness: a round trip of an unseen transaction was ignored although its
\* amount is worth more than the threshold.
C4_Witness ==
  /\ last.op = "msg" /\ last.outcome = "ignored"
  /\ RoundTripOnly /\ UnseenTx /\ WatchedOuts # {}
  /\ MINIMUM_USD_VALUE > 0
  /\ \E i \in WatchedOuts :
       frame_in.out[i].value * crypto_prices.btc > MINIMUM_USD_VALUE

\* C5: an output with amount 0 never yields an Alertable verdict: an address's
\* alerts grow only if some output to it carries an amount > 0, and a frame whose
\* outputs to watched addresses all carry 0 increments no alerts, not
\* total_alerts, and sends no notification.
C5_ZeroNeverAlerts ==
  [][/\ \A a \in Watched :
          Btc(address_stats', a).alerts > Btc(address_stats, a).alerts =>
            \E i \in WatchedOuts : frame_in.out[i].addr = a /\ frame_in.out[i].value > 0
     /\ (\A i \in WatchedOuts : frame_in.out[i].value = 0) =>
          /\ \A a \in Watched : Btc(address_stats', a).alerts = Btc(address_stats, a).alerts
          /\ health_status'.total_alerts = health_status.total_alerts
          /\ sends' = sends]_vars

\* C5 witness: an unseen transaction whose first incoming output carries 0 was
\* handled with the threshold at 0 and a price known, so that its fiat value
\* (0) reaches the threshold.
C5_Witness ==
  /\ last.op = "msg" /\ UnseenTx
  /\ FirstIncoming(frame_in, 1) # 0
  /\ FirstOut.value = 0
  /\ crypto_prices.btc > 0
  /\ FirstOut.value * crypto_prices.btc >= MINIMUM_USD_VALUE

\* C6: one frame applies at most one verdict (over all addresses alerts +
\* filtered_count grows by at most 1, at most one notification), and the address
\* affected is that of the first output whose destination is watched and is no
\* input source.
C6_FirstOutputWins ==
  [][LET grown == {a \in Watched :
                     Btc(address_stats', a).alerts + Btc(address_stats', a).filtered_count
                       > Btc(address_stats, a).alerts + Btc(address_stats, a).filtered_count}
     IN /\ Cardinality(grown) <= 1
        /\ \A a \in Watched :
             Btc(address_stats', a).alerts + Btc(address_stats', a).filtered_count
               <= Btc(address_stats, a).alerts + Btc(address_stats, a).filtered_count + 1
        /\ \A h \in Hashes : sends'[h] <= sends[h] + 1
        /\ \A h1, h2 \in Hashes : sends'[h1] > sends[h1] /\ sends'[h2] > sends[h2] => h1 = h2
        /\ grown # {} => FirstIncoming(frame_in, 1) # 0 /\ grown = {FirstOut.addr}]_vars

\* C7: a pass of the daily reset leaves alerts and filtered_count at 0 for every
\* address of every chain and total_alerts and total_filtered at 0, with every
\* total_value unchanged; and alerts of an address always equals the number of
\* Alertable verdicts it got since the last reset, so the next one leaves it at 1.
C7_ResetCountsFromZero ==
  [][/\ last'.op = "reset" =>
          /\ \A c \in Chains : \A a \in MONITORED_ADDRESSES[c] :
               /\ address_stats'[c][a].alerts = 0
               /\ address_stats'[c][a].filtered_count = 0
               /\ address_stats'[c][a].total_value = address_stats[c][a].total_value
          /\ health_status'.total_alerts = 0
          /\ health_status'.total_filtered = 0
     /\ \A a \in Watched : Btc(address_stats', a).alerts = since_reset'[a]
     /\ \A a \in Watched :
          (last.op = "reset" /\ Btc(address_stats', a).alerts > Btc(address_stats, a).alerts)
             => Btc(address_stats', a).alerts = 1]_vars

\* C7 witness: A was alerted, the reset ran, and A was alerted again: its
\* total_value holds two alerts and its alerts is 1.
C7_Witness ==
  /\ last.op = "msg" /\ last.outcome = "alert"
  /\ Btc(address_stats, "A").alerts = 1
  /\ Btc(address_stats, "A").total_value >= 2 * 5000 * 40000
  /\ health_status.total_alerts = 1

\* C8: alerts, filtered_count and total_value of every address are >= 0 in every
\* reachable state; total_value never decreases under any operation; alerts +
\* filtered_count decreases under no operation but the daily reset.
C8_CounterMonotonicity ==
  /\ [](\A c \in Chains : \A a \in MONITORED_ADDRESSES[c] :
          /\ address_stats[c][a].alerts >= 0
          /\ address_stats[c][a].filtered_count >= 0
          /\ address_stats[c][a].total_value >= 0)
  /\ [][\A c \in Chains : \A a \in MONITORED_ADDRESSES[c] :
          /\ address_stats'[c][a].total_value >= address_stats[c][a].total_value
          /\ last'.op # "reset" =>
               address_stats'[c][a].alerts + address_stats'[c][a].filtered_count
                 >= address_stats[c][a].alerts + address_stats[c][a].filtered_count]_vars

\* C8 witness: the daily reset has just run on an address that had been alerted
\* and the dedup set has been cleared since: total_value was kept.
C8_Witness ==
  /\ last.op = "reset"
  /\ Btc(address_stats, "A").total_value > 0
  /\ Btc(address_stats, "A").alerts = 0
  /\ Btc(address_stats, "B").filtered_count = 0
  /\ Btc(address_stats, "B").total_value > 0
  /\ processed_transactions = {}

\* C9: a transaction given a Filtered verdict is in the dedup set until the next
\* clear, and until then no step applies a further verdict or sends a
\* notification for its id; its redelivery changes no stat and no counter.
C9_FilteredStaysDeduped ==
  /\ [](filt_cycle \subseteq processed_transactions)
  /\ [][/\ \A h \in filt_cycle :
             verdicts'[h] <= verdicts[h] /\ sends'[h] <= sends[h]
        /\ (last'.op = "msg" /\ last'.outcome = "seen" /\ last'.hash \in filt_cycle) =>
             UNCHANGED <<address_stats, health_status, processed_transactions,
                         filtered_transactions, sends, verdicts>>]_vars

\* C9 witness: a transaction filtered in this cycle was delivered again after the
\* price rose so that the scan would now alert, and was turned away as seen.
C9_Witness ==
  /\ last.op = "msg" /\ last.outcome = "seen"
  /\ last.hash \in filt_cycle
  /\ last.would = "alert"
  /\ MINIMUM_USD_VALUE > 0
  /\ sends[last.hash] = 0

\* C10: the connector sets the state to connecting again only after the sleep
\* of the backoff interval: every transition to connecting but the first of the
\* thread is made with the sleep just over.
C10_BackoffBeforeReconnect ==
  [][(health_status'.websocket_btc = "connecting" /\ ws_pc' = "run_forever"
        /\ ws_pc # "run_forever" /\ ws_pc # "first")
       => ws_pc = "slept"]_vars

\* A connection has ended: by close or transport error inside run_forever, or
\* by an exception that left the try block.
ConnectionEnded == conn \in {"errored", "closed"} \/ ws_pc \in {"returned", "sleep", "slept"}
\* The loop has just set connecting and built a new connection.
Reconnected ==
  /\ health_status.websocket_btc = "connecting"
  /\ ws_pc = "run_forever" /\ conn = "opening"

\* C11: the connector has no terminal state: its position is always one of the
\* loop's, and after every close, transport error or exception the loop
\* eventually sets connecting again and builds a new connection.
C11_ReconnectsForever ==
  /\ [](ws_pc \in {"first", "run_forever", "returned", "sleep", "slept"})
  /\ (ConnectionEnded ~> Reconnected)

\* C11 witness: the loop reconnected after an exception and the sleep.
C11_Witness ==
  /\ Reconnected
  /\ last.op = "connect" /\ last.outcome = "slept"
  /\ health_status.errors_count >= 1

\* C12: a frame that is no JSON is dropped: errors_count grows by exactly 1 and
\* nothing else of health_status changes (the connection state and the global
\* counters included); stats, prices, both sets and the notification counts
\* are unchanged; the handler returns to a connection that is still open, so
\* that the next frame is handled.
C12_ParseErrorDropped ==
  [][(frame_in = BadJsonFrame) =>
       /\ health_status' = [health_status EXCEPT !.errors_count = @ + 1]
       /\ UNCHANGED <<address_stats, crypto_prices, processed_transactions,
                      filtered_transactions, sends, verdicts, ws_pc, conn>>
       /\ ws_pc' = "run_forever" /\ conn' = "open"]_vars

\* C12 witness: a frame that is no JSON was handled in a state that holds an
\* earlier alert and a seen transaction, which are still there.
C12_Witness ==
  /\ frame_in = BadJsonFrame
  /\ last.op = "msg" /\ last.outcome = "parse_error"
  /\ health_status.errors_count = 1
  /\ health_status.websocket_btc = "connected"
  /\ Btc(address_stats, "A").alerts = 1
  /\ processed_transactions = StrHashes

\* C13: when the handling of a frame aborts with an error, the per-address
\* stats, total_alerts, total_filtered and the dedup set are as before the frame.
C13_AbortChangesNothing ==
  [][(last'.op = "msg" /\ last'.outcome \in {"parse_error", "exception"}) =>
       /\ address_stats' = address_stats
       /\ health_status'.total_alerts = health_status.total_alerts
       /\ health_status'.total_filtered = health_status.total_filtered
       /\ processed_transactions' = processed_transactions]_vars

\* C14: when the send for an Alertable verdict fails, the stat mutation is
\* kept (alerts + 1 and total_value + fiat for the address of an output with
\* amount > 0, total_alerts + 1), the failure is counted in errors_count, and
\* the handler returns to a connection that is still open.
C14_SendFailureKeepsStats ==
  [][(last'.op = "msg" /\ last'.outcome = "alert_unsent") =>
       /\ \E i \in WatchedOuts :
            /\ frame_in.out[i].value > 0
            /\ address_stats' =
                 [address_stats EXCEPT
                    !["btc"][frame_in.out[i].addr].alerts = @ + 1,
                    !["btc"][frame_in.out[i].addr].total_value =
                        @ + frame_in.out[i].value * crypto_prices.btc]
       /\ health_status' = [health_status EXCEPT !.total_alerts = @ + 1,
                                                !.errors_count = @ + 1]
       /\ sends'[frame_in.hash] = sends[frame_in.hash] + 1
       /\ ws_pc' = "run_forever" /\ conn' = "open"]_vars

\* C14 witness: the send failed for an alert worth 5000 satoshi at 50000, on
\* top of an earlier alert: both are in the stats.
C14_Witness ==
  /\ last.op = "msg" /\ last.outcome = "alert_unsent"
  /\ Btc(address_stats, "A").alerts = 2
  /\ Btc(address_stats, "A").total_value = 2 * 5000 * 50000
  /\ health_status.total_alerts = 2
  /\ health_status.errors_count = 1

\* A step in which a non-fatal error happened: a frame that failed to parse or
\* whose handling raised, a failed send (alert, reset announcement, periodic
\* report, startup summary), a transport error reported by the feed, or an
\* exception that left the connector's try block.
ErrorStep ==
  \/ last'.op = "msg" /\ last'.outcome \in {"parse_error", "exception", "alert_unsent"}
  \/ last'.op \in {"reset", "report", "startup"} /\ last'.outcome = "unsent"
  \/ conn' = "errored" /\ conn # "errored"
  \/ ws_pc' = "sleep" /\ ws_pc # "sleep"

\* C15: every non-fatal error increments errors_count by one.
C15_EveryErrorCounted ==
  [][ErrorStep => health_status'.errors_count = health_status.errors_count + 1]_vars

\* C17: serving a route leaves address_stats, health_status, crypto_prices,
\* processed_transactions and filtered_transactions unchanged, in any state.
C17_ReportingReadOnly ==
  [][last'.op = "http" =>
       UNCHANGED <<address_stats, health_status, crypto_prices,
                   processed_transactions, filtered_transactions>>]_vars

\* C17 witness: a route was served in a state with an alert, a filtered
\* transaction, a price and an error on record.
C17_Witness ==
  /\ last.op = "http" /\ last.outcome = "/stats"
  /\ health_status.total_alerts = 1
  /\ health_status.total_filtered = 1
  /\ health_status.errors_count = 1
  /\ crypto_prices.btc > 0
  /\ processed_transactions # {} /\ filtered_transactions # {}

\* C16: a price refresh that fails leaves both prices as they were, leaves
\* last_price_update as it was and increments errors_count by one.
C16_FailedRefreshKeepsPrices ==
  [][(last'.op = "prices" /\ last'.outcome = "failed") =>
       /\ crypto_prices' = crypto_prices
       /\ health_status' = [health_status EXCEPT !.errors_count = @ + 1]]_vars

\* C18: for BTC and for ETH alike a connector moves the chain's connection
\* state out of its initial value 'disconnected'.
C18_SubscriptionPerChain ==
  /\ <>(health_status.websocket_btc # "disconnected")
  /\ <>(health_status.websocket_eth # "disconnected")

\* C19: once the watch-list is loaded no address occurs twice in it, every
\* address in it passes the format validation, and no piece of the environment
\* text that fails the validation is in it.
C19_WatchListUniqueAndValid ==
  config.loaded =>
    /\ \A i, j \in 1..Len(config.addresses) :
         config.addresses[i] = config.addresses[j] => i = j
    /\ \A i \in 1..Len(config.addresses) : validate_address_format(config.addresses[i])
    /\ \A k \in 1..Len(config.env) :
         ~validate_address_format(strip(config.env[k])) =>
            \A i \in 1..Len(config.addresses) : config.addresses[i] # strip(config.env[k])

\* C20: on the alert path the transaction id is in processed_transactions from
\* right after the verdict was decided: while the handler is inside the alert
\* path past the decision, and in particular when it is about to issue the
\* notification send, the id is already in the set.
C20_MarkedBeforeSend ==
  handler.pc \in {"l346", "l347", "l370", "l413"} => handler.hash \in processed_transactions

\* C21: the connection state of the BTC chain starts at disconnected and only
\* makes the transitions disconnected -> connecting, connecting -> connected,
\* connected -> disconnected, connected -> error and error -> disconnected.
C21_ConnectionStateMachine ==
  /\ health_status.websocket_btc = "disconnected"
  /\ [][LET allowed == {<<"disconnected", "connecting">>, <<"connecting", "connected">>,
                        <<"connected", "disconnected">>, <<"connected", "error">>,
                        <<"error", "disconnected">>}
        IN health_status'.websocket_btc # health_status.websocket_btc =>
             <<health_status.websocket_btc, health_status'.websocket_btc>> \in allowed]_vars

\* C22: when one daily reset and one alert verdict have both run to their end,
\* in whatever interleaving, the daily counters are those of one of the two
\* serial orders: reset then verdict (the matched address and the global counter
\* show the one alert) or verdict then reset (all are 0).
C22_ResetAndVerdictSerialized ==
  (handler.pc = "returned" /\ resetter.pc = "sleep" /\ resetter.cycle = 1) =>
     \/ /\ Btc(address_stats, handler.addr).alerts = 1
        /\ \A b \in Watched \ {handler.addr} : Btc(address_stats, b).alerts = 0
        /\ health_status.total_alerts = 1
     \/ /\ \A b \in Watched : Btc(address_stats, b).alerts = 0
        /\ health_status.total_alerts = 0

\* C23: a request to /health, /addresses or /stats is never served in a state
\* in which the alerts counter of an address holds the increment of a verdict
\* whose increment of total_value has not been written yet.
C23_NoHalfAppliedRead ==
  [][(last'.op = "http" /\ last'.outcome \in {"/health", "/addresses", "/stats"}) =>
        ~(handler.pc = "l346" /\ handler.usd > 0)]_vars

\* C24: whenever neither a verdict application nor a daily reset is in
\* progress, total_alerts is the sum of alerts over all addresses and
\* total_filtered the sum of filtered_count over all addresses.
C24_GlobalMirrorsPerAddress ==
  (handler.pc \in {"idle", "returned"} /\ resetter.pc = "sleep") =>
     /\ health_status.total_alerts =
          Btc(address_stats, "A").alerts + Btc(address_stats, "B").alerts
            + address_stats["eth"]["E"].alerts
     /\ health_status.total_filtered =
          Btc(address_stats, "A").filtered_count + Btc(address_stats, "B").filtered_count
            + address_stats["eth"]["E"].filtered_count

\* C25: when the first output to a watched address that is no input source
\* does not have both a fiat value at or above the threshold and an amount
\* above 0, the frame gets the Filtered verdict for that output: its
\* filtered_count grows by one, the hash is added to the dedup set and no later
\* output is given a verdict.
C25_NotAlertableIsFiltered ==
  [][(/\ Gate(frame_in, processed_transactions) = "scan"
      /\ FirstIncoming(frame_in, 1) # 0
      /\ ~(/\ FirstOut.value * crypto_prices.btc >= MINIMUM_USD_VALUE
           /\ FirstOut.value > 0))
       => /\ Btc(address_stats', FirstOut.addr).filtered_count
               = Btc(address_stats, FirstOut.addr).filtered_count + 1
          /\ frame_in.hash \in processed_transactions'
          /\ \A a \in Watched \ {FirstOut.addr} : Btc(address_stats', a) = Btc(address_stats, a)
          /\ \A a \in Watched : Btc(address_stats', a).alerts = Btc(address_stats, a).alerts]_vars

\* C26: while the BTC price is 0, a frame with an output to a watched address
\* that is no input source gets the Filtered verdict and no alert, whatever the
\* amount and the threshold: filtered_count of that address grows by one, no
\* alerts counter grows and no notification is issued.
C26_NoPriceMeansFiltered ==
  [][(/\ crypto_prices.btc = 0
      /\ Gate(frame_in, processed_transactions) = "scan"
      /\ FirstIncoming(frame_in, 1) # 0)
       => /\ \A a \in Watched : Btc(address_stats', a).alerts = Btc(address_stats, a).alerts
          /\ sends' = sends
          /\ Btc(address_stats', FirstOut.addr).filtered_count
               = Btc(address_stats, FirstOut.addr).filtered_count + 1]_vars

\* C27: the announcement of the daily reset is sent after the counters were
\* zeroed (with no frame handled meanwhile every daily counter is 0 when it is
\* sent), and whether or not it is sent the step changes no counter and leaves
\* the reset thread at its sleep, from where the next cycle starts.
DailyCountersZero ==
  /\ \A c \in Chains : \A a \in MONITORED_ADDRESSES[c] :
        address_stats[c][a].alerts = 0 /\ address_stats[c][a].filtered_count = 0
  /\ health_status.total_alerts = 0 /\ health_status.total_filtered = 0
C28_ClearIsTotalAndOnlyClears ==
  [][(\E h \in processed_transactions : h \notin processed_transactions') =>
        /\ processed_transactions' = {}
        /\ address_stats' = address_stats
        /\ health_status' = health_status
        /\ crypto_prices' = crypto_prices
        /\ filtered_transactions' = filtered_transactions]_vars

\* C28 witness: t1 is the only id ever filtered, and two Filtered verdicts were
\* applied since the last daily reset: t1 was filtered, the clear ran, and t1,
\* delivered again, was filtered a second time.
C28_Witness ==
  /\ filtered_transactions = {"t1"}
  /\ processed_transactions = {"t1"}
  /\ Btc(address_stats, "A").filtered_count + Btc(address_stats, "B").filtered_count = 2

\* C29: no step removes an id from filtered_transactions: the set only grows.
C29_FilteredSetOnlyGrows ==
  [][filtered_transactions \subseteq filtered_transactions']_vars

\* C29 witness: after a dedup clear (and a daily reset) an id filtered earlier
\* is still in filtered_transactions and no longer in processed_transactions.
C29_Witness ==
  /\ "t1" \in filtered_transactions \ processed_transactions
  /\ DailyCountersZero

\* C30: a price refresh that goes through with response data leaves each
\* asset's price at the value the response gives for it, and at 0 when the
\* response has no entry for it; it advances last_price_update and leaves
\* errors_count as it was.
C30_RefreshTakesResponseOrZero ==
  [][\A data \in PriceResponses :
        (GetCryptoPrices(TRUE, data) /\ last'.outcome = "ok") =>
           /\ crypto_prices'.btc = (IF data.bitcoin = Missing THEN 0 ELSE data.bitcoin)
           /\ crypto_prices'.eth = (IF data.ethereum = Missing THEN 0 ELSE data.ethereum)
           /\ health_status'.last_price_update = health_status.last_price_update + 1
           /\ health_status'.errors_count = health_status.errors_count]_vars

\* C30 witness: a refresh whose response had no entry for bitcoin went through
\* and overwrote a BTC price above 0 with 0.
C30_Witness ==
  /\ last.op = "prices" /\ last.outcome = "ok" /\ last.would = "zeroed"
  /\ crypto_prices.btc = 0
  /\ health_status.last_price_update = 1

====
